---- MODULE Spec2Model ----
(***************************************************************************)
(* Model of QtXlsx Format (src/xlsx/xlsxformat.cpp): a handle `d` onto a   *)
(* shared FormatPrivate record, the attribute setters, the lazily cached   *)
(* canonical keys and the index caches used by the style registry.         *)
(***************************************************************************)
EXTENDS Integers, Sequences, FiniteSets, TLC

VARIABLES
    d,      \* Format::d of each handle: a pointer into heap, NULL if not constructed
    heap,   \* the FormatPrivate objects, by pointer
    ops,    \* number of calls made so far
    last,   \* the last call made: [op, h, arg, shared (d was shared before it)]
    hist    \* per handle, what a specification records of its earlier calls

vars == <<d, heap, ops, last, hist>>

\* ------------------------------------------------------------------ bounds
MaxOps == 2          \* calls per behaviour of Spec
MaxOneOps == 3       \* calls per behaviour of SpecOne
MaxNumOps == 3       \* calls per behaviour of SpecNumber
MaxCalls == 2        \* setter calls per handle in SpecOrder
MaxPieces == 2       \* pieces concatenated into a format string of SpecDate
MaxBundleOps == 3    \* calls per behaviour of SpecBundle
MaxReadOps == 4      \* calls per behaviour of SpecReads
MaxFrameOps == 2     \* calls per behaviour of SpecFrame

\* ------------------------------------------------------------------ domains
Handles == {"A", "B"}
Ptrs == {1, 2}
NULL == 0

EmptyStr == << >>

HorizontalAlignments ==
    {"AlignHGeneral", "AlignLeft", "AlignHCenter", "AlignRight", "AlignHFill",
     "AlignHJustify", "AlignHMerge", "AlignHDistributed"}
VerticalAlignments == {"AlignVCenter"}
BorderStyles == {"BorderThin"}
DiagonalBorderTypes == {"DiagonalBorderUp"}
FillPatterns == {"PatternNone", "PatternSolid", "PatternGray125"}
InvalidColor == "QColor()"
Colors == {InvalidColor, "red"}
FontColors == {"red"}
BorderColors == {"red"}
FontFlags == {TRUE}

\* ------------------------------------------------------------------ data
\* XlsxFormatNumberData()
NumberDataDefault ==
    [formatIndex |-> 0, formatString |-> EmptyStr, _valid |-> TRUE]

\* XlsxFormatFontData()
FontDataDefault ==
    [size |-> 11, italic |-> FALSE, strikeOut |-> FALSE, color |-> InvalidColor,
     bold |-> FALSE, scirpt |-> "FontScriptNormal", underline |-> "FontUnderlineNone",
     outline |-> FALSE, shadow |-> FALSE, name |-> "Calibri", family |-> 2,
     scheme |-> "minor", themeColor |-> "",
     _dirty |-> TRUE, _key |-> << >>, _indexValid |-> FALSE, _index |-> -1]

\* XlsxFormatAlignmentData(): the defaults alignmentChanged() compares with
AlignmentDataDefault ==
    [alignH |-> "AlignHGeneral", alignV |-> "AlignBottom", wrap |-> FALSE,
     rotation |-> 0, indent |-> 0, shinkToFit |-> FALSE]

\* XlsxFormatBorderData()
BorderDataDefault ==
    [left |-> "BorderNone", right |-> "BorderNone", top |-> "BorderNone",
     bottom |-> "BorderNone", diagonal |-> "BorderNone",
     leftColor |-> InvalidColor, rightColor |-> InvalidColor, topColor |-> InvalidColor,
     bottomColor |-> InvalidColor, diagonalColor |-> InvalidColor,
     diagonalType |-> "DiagonalBorderNone",
     _dirty |-> TRUE, _key |-> << >>, _indexValid |-> FALSE, _index |-> -1]

\* XlsxFormatFillData()
FillDataDefault ==
    [pattern |-> "PatternNone", fgColor |-> InvalidColor, bgColor |-> InvalidColor,
     _dirty |-> TRUE, _key |-> << >>, _indexValid |-> FALSE, _index |-> -1]

\* XlsxFormatProtectionData()
ProtectionDataDefault == [hidden |-> FALSE, locked |-> TRUE]

\* FormatPrivate::FormatPrivate()
FormatPrivateNew ==
    [numberData |-> NumberDataDefault, fontData |-> FontDataDefault,
     alignmentData |-> AlignmentDataDefault, borderData |-> BorderDataDefault,
     fillData |-> FillDataDefault, protectionData |-> ProtectionDataDefault,
     dirty |-> TRUE, formatKey |-> << >>,
     xf_index |-> -1, xf_indexValid |-> FALSE,
     is_dxf_fomat |-> FALSE, dxf_index |-> -1, dxf_indexValid |-> FALSE,
     theme |-> 0]

\* FormatPrivate::FormatPrivate(const FormatPrivate &other)
FormatPrivateCopy(other) ==
    [numberData |-> other.numberData, fontData |-> other.fontData,
     alignmentData |-> other.alignmentData,
     borderData |-> other.borderData, fillData |-> other.fillData,
     protectionData |-> other.protectionData,
     dirty |-> other.dirty, formatKey |-> other.formatKey,
     xf_index |-> other.xf_index, xf_indexValid |-> other.xf_indexValid,
     is_dxf_fomat |-> other.is_dxf_fomat, dxf_index |-> other.dxf_index,
     dxf_indexValid |-> other.dxf_indexValid,
     theme |-> other.theme]

\* ------------------------------------------------------------------ the shared pointer
Constructed(h) == d[h] # NULL
\* the FormatPrivate a handle reads through d->
P(h) == heap[d[h]]
\* QSharedData::ref > 1
Shared(h) == \E g \in Handles \ {h} : d[g] = d[h]
FreePtr == CHOOSE p \in Ptrs : \A g \in Handles : d[g] # p
\* the object a mutating member function writes to: a clone when shared
Detached(h) == IF Shared(h) THEN FormatPrivateCopy(P(h)) ELSE P(h)
\* a mutating member function leaves `new` in the handle's own object
Mutate(h, new) ==
    IF Shared(h)
    THEN /\ d' = [d EXCEPT ![h] = FreePtr]
         /\ heap' = [heap EXCEPT ![FreePtr] = new]
    ELSE /\ d' = d
         /\ heap' = [heap EXCEPT ![d[h]] = new]
\* a const member function writes its caches in place, shared or not
Cache(h, new) ==
    /\ d' = d
    /\ heap' = [heap EXCEPT ![d[h]] = new]

\* ------------------------------------------------------------------ number format
\* int Format::numberFormatIndex() const
numberFormatIndex(h) == P(h).numberData.formatIndex

\* setNumberFormatIndex marking the index as not valid
setNumberFormatIndex_NotValid(h, format) ==
    Mutate(h, [Detached(h) EXCEPT !.dirty = TRUE,
                                  !.numberData.formatIndex = format,
                                  !.numberData._valid = FALSE])

\* void Format::setNumberFormatIndex(int format)
setNumberFormatIndex(h, format) ==
    Mutate(h, [Detached(h) EXCEPT !.dirty = TRUE,
                                  !.numberData.formatIndex = format,
                                  !.numberData._valid = TRUE])

\* QString Format::numberFormat() const
numberFormat(h) == P(h).numberData.formatString

\* setNumberFormat storing the empty string as well
setNumberFormat_StoresEmpty(h, format) ==
    Mutate(h, [Detached(h) EXCEPT !.dirty = TRUE,
                                  !.numberData.formatString = format,
                                  !.numberData._valid = FALSE])

\* void Format::setNumberFormat(const QString &format)
setNumberFormat(h, format) ==
    IF format = EmptyStr
    THEN UNCHANGED <<d, heap>>
    ELSE Mutate(h, [Detached(h) EXCEPT !.dirty = TRUE,
                                       !.numberData.formatString = format,
                                       !.numberData._valid = FALSE])

\* the alternatives of the QRegularExpression removed by isDateTimeFormat()
ColorTokens ==
    { <<"[", "G", "r", "e", "e", "n", "]">>,
      <<"[", "W", "h", "i", "t", "e", "]">>,
      <<"[", "B", "l", "u", "e", "]">>,
      <<"[", "M", "a", "g", "e", "n", "t", "a", "]">>,
      <<"[", "Y", "e", "l", "l", "o", "w", "]">>,
      <<"[", "C", "y", "a", "n", "]">>,
      <<"[", "R", "e", "d", "]">> }

\* the character class [dmhys]
DateChars == {"d", "m", "h", "y", "s"}

\* tok matches s at position i
MatchesAt(s, i, tok) ==
    /\ i + Len(tok) - 1 <= Len(s)
    /\ SubSeq(s, i, i + Len(tok) - 1) = tok

\* QString::remove(QRegularExpression): every match, found left to right in the
\* original string, is taken out; the result is not scanned again
RECURSIVE RemoveFrom(_, _, _)
RemoveFrom(s, i, toks) ==
    IF i > Len(s) THEN << >>
    ELSE IF \E tok \in toks : MatchesAt(s, i, tok)
         THEN LET tok == CHOOSE t \in toks : MatchesAt(s, i, t)
              IN RemoveFrom(s, i + Len(tok), toks)
         ELSE <<s[i]>> \o RemoveFrom(s, i + 1, toks)

\* QString::contains(QRegularExpression("[dmhys]"))
ContainsAny(s, chars) == \E i \in 1..Len(s) : s[i] \in chars

\* isDateTimeFormat() searching the format string with its color tokens left in
IsDateTimeFormatOf_NoRemove(p) ==
    IF p.numberData._valid /\ p.numberData.formatString = EmptyStr
    THEN LET idx == p.numberData.formatIndex
         IN (idx >= 15 /\ idx <= 22) \/ (idx >= 45 /\ idx <= 47)
    ELSE ContainsAny(p.numberData.formatString, DateChars)

\* the body of bool Format::isDateTimeFormat() const, on a FormatPrivate
IsDateTimeFormatOf(p) ==
    IF p.numberData._valid /\ p.numberData.formatString = EmptyStr
    THEN LET idx == p.numberData.formatIndex
         IN (idx >= 15 /\ idx <= 22) \/ (idx >= 45 /\ idx <= 47)
    ELSE LET formatCode == RemoveFrom(p.numberData.formatString, 1, ColorTokens)
         IN ContainsAny(formatCode, DateChars)

\* bool Format::isDateTimeFormat() const: the action (a read) and its result
isDateTimeFormatResult(h) == IsDateTimeFormatOf(P(h))
isDateTimeFormat(h) == UNCHANGED <<d, heap>>

\* bool Format::numFmtIndexValid() const
numFmtIndexValid(h) == P(h).numberData._valid

\* void Format::setNumFmt(int index, const QString &string)
setNumFmt(h, index, string) ==
    Mutate(h, [Detached(h) EXCEPT !.numberData.formatIndex = index,
                                  !.numberData.formatString = string,
                                  !.numberData._valid = TRUE])

\* ------------------------------------------------------------------ font
\* XlsxFormatFontData::key() const, XlsxFormatFontData::indexValid(), setIndex()
FontSerial(f) ==
    <<f.size, f.bold, f.italic, f.strikeOut, f.outline, f.shadow, f.underline,
      f.scirpt, f.color, f.themeColor, f.family, f.name, f.scheme>>
\* the bundle after key(): a dirty bundle is serialized again, its cached index dropped
BundleKey(b, serial) ==
    IF b._dirty
    THEN [b EXCEPT !._key = serial, !._dirty = FALSE, !._indexValid = FALSE]
    ELSE b
BundleIndexValid(b) == ~b._dirty /\ b._indexValid
BundleSetIndex(b, index) == [b EXCEPT !._index = index, !._indexValid = TRUE]

fontSize(h) == P(h).fontData.size
\* setFontSize writing through d without detaching from the other handles
setFontSize_NoDetach(h, size) ==
    Cache(h, [P(h) EXCEPT !.fontData.size = size, !.fontData._dirty = TRUE])
\* setFontSize leaving the font bundle's dirty flag as it was
setFontSize_NotDirty(h, size) ==
    Mutate(h, [Detached(h) EXCEPT !.fontData.size = size])
setFontSize(h, size) ==
    Mutate(h, [Detached(h) EXCEPT !.fontData.size = size, !.fontData._dirty = TRUE])
fontItalic(h) == P(h).fontData.italic
setFontItalic(h, italic) ==
    Mutate(h, [Detached(h) EXCEPT !.fontData.italic = italic, !.fontData._dirty = TRUE])
fontStrikeOut(h) == P(h).fontData.strikeOut
setFontStrikeOut(h, strikeOut) ==
    Mutate(h, [Detached(h) EXCEPT !.fontData.strikeOut = strikeOut,
                                  !.fontData._dirty = TRUE])
\* QColor Format::fontColor() const: a theme colour is not resolved
fontColor(h) ==
    IF P(h).fontData.color = InvalidColor /\ P(h).fontData.themeColor # ""
    THEN InvalidColor
    ELSE P(h).fontData.color
setFontColor(h, color) ==
    Mutate(h, [Detached(h) EXCEPT !.fontData.color = color, !.fontData._dirty = TRUE])
fontBold(h) == P(h).fontData.bold
setFontBold(h, bold) ==
    Mutate(h, [Detached(h) EXCEPT !.fontData.bold = bold, !.fontData._dirty = TRUE])
fontScript(h) == P(h).fontData.scirpt
setFontScript(h, script) ==
    Mutate(h, [Detached(h) EXCEPT !.fontData.scirpt = script, !.fontData._dirty = TRUE])
fontUnderline(h) == P(h).fontData.underline
setFontUnderline(h, underline) ==
    Mutate(h, [Detached(h) EXCEPT !.fontData.underline = underline,
                                  !.fontData._dirty = TRUE])
fontOutline(h) == P(h).fontData.outline
setFontOutline(h, outline) ==
    Mutate(h, [Detached(h) EXCEPT !.fontData.outline = outline, !.fontData._dirty = TRUE])
fontName(h) == P(h).fontData.name
setFontName(h, name) ==
    Mutate(h, [Detached(h) EXCEPT !.fontData.name = name, !.fontData._dirty = TRUE])
fontIndexValid(h) == BundleIndexValid(P(h).fontData)
fontIndex(h) == P(h).fontData._index
setFontIndex(h, index) ==
    Mutate(h, [Detached(h) EXCEPT !.fontData = BundleSetIndex(@, index)])
fontFamily(h) == P(h).fontData.family
fontShadow(h) == P(h).fontData.shadow
fontScheme(h) == P(h).fontData.scheme

\* fontKey() without raising the whole-value dirty flag
FontKeyOf_NoRaise(p) == [p EXCEPT !.fontData = BundleKey(@, FontSerial(@))]

\* fontKey() raising the whole-value dirty flag on every call
FontKeyOf_AlwaysRaise(p) ==
    [p EXCEPT !.dirty = TRUE, !.fontData = BundleKey(@, FontSerial(@))]

\* QByteArray Format::fontKey() const, on a FormatPrivate: the object afterwards
FontKeyOf(p) ==
    LET p1 == IF p.fontData._dirty THEN [p EXCEPT !.dirty = TRUE] ELSE p
    IN [p1 EXCEPT !.fontData = BundleKey(@, FontSerial(@))]
fontKey(h) == Cache(h, FontKeyOf(P(h)))
fontKeyResult(h) == FontKeyOf(P(h)).fontData._key

\* ------------------------------------------------------------------ alignment
horizontalAlignment(h) == P(h).alignmentData.alignH

\* setHorizontalAlignment keeping the indent for the alignments setIndent keeps
setHorizontalAlignment_IndentSet(h, align) ==
    LET p0 == Detached(h)
        p1 == IF p0.alignmentData.indent # 0
                 /\ align \notin {"AlignHGeneral", "AlignLeft", "AlignRight",
                                  "AlignHJustify"}
              THEN [p0 EXCEPT !.alignmentData.indent = 0]
              ELSE p0
        p2 == IF p1.alignmentData.shinkToFit
                 /\ align \in {"AlignHFill", "AlignHJustify", "AlignHDistributed"}
              THEN [p1 EXCEPT !.alignmentData.shinkToFit = FALSE]
              ELSE p1
    IN Mutate(h, [p2 EXCEPT !.alignmentData.alignH = align, !.dirty = TRUE])

\* void Format::setHorizontalAlignment(HorizontalAlignment align)
setHorizontalAlignment(h, align) ==
    LET p0 == Detached(h)
        p1 == IF p0.alignmentData.indent # 0
                 /\ align \notin {"AlignHGeneral", "AlignLeft", "AlignRight",
                                  "AlignHDistributed"}
              THEN [p0 EXCEPT !.alignmentData.indent = 0]
              ELSE p0
        p2 == IF p1.alignmentData.shinkToFit
                 /\ align \in {"AlignHFill", "AlignHJustify", "AlignHDistributed"}
              THEN [p1 EXCEPT !.alignmentData.shinkToFit = FALSE]
              ELSE p1
    IN Mutate(h, [p2 EXCEPT !.alignmentData.alignH = align, !.dirty = TRUE])

verticalAlignment(h) == P(h).alignmentData.alignV
\* setVerticalAlignment also resetting the rotation
setVerticalAlignment_ResetsRotation(h, align) ==
    Mutate(h, [Detached(h) EXCEPT !.alignmentData.alignV = align,
                                  !.alignmentData.rotation = 0, !.dirty = TRUE])
setVerticalAlignment(h, align) ==
    Mutate(h, [Detached(h) EXCEPT !.alignmentData.alignV = align, !.dirty = TRUE])

textWrap(h) == P(h).alignmentData.wrap

\* setTextWarp leaving shrink-to-fit set
setTextWarp_KeepsShrink(h, wrap) ==
    Mutate(h, [Detached(h) EXCEPT !.alignmentData.wrap = wrap, !.dirty = TRUE])

\* void Format::setTextWarp(bool wrap)
setTextWarp(h, wrap) ==
    LET p0 == Detached(h)
        p1 == IF wrap /\ p0.alignmentData.shinkToFit
              THEN [p0 EXCEPT !.alignmentData.shinkToFit = FALSE]
              ELSE p0
    IN Mutate(h, [p1 EXCEPT !.alignmentData.wrap = wrap, !.dirty = TRUE])

rotation(h) == P(h).alignmentData.rotation
setRotation(h, rot) ==
    Mutate(h, [Detached(h) EXCEPT !.alignmentData.rotation = rot, !.dirty = TRUE])

indent(h) == P(h).alignmentData.indent

\* void Format::setIndent(int indent)
setIndent(h, ind) ==
    LET p0 == Detached(h)
        p1 == IF ind # 0
                 /\ p0.alignmentData.alignH \notin {"AlignHGeneral", "AlignLeft",
                                                    "AlignRight", "AlignHJustify"}
              THEN [p0 EXCEPT !.alignmentData.alignH = "AlignLeft"]
              ELSE p0
    IN Mutate(h, [p1 EXCEPT !.alignmentData.indent = ind, !.dirty = TRUE])

shrinkToFit(h) == P(h).alignmentData.shinkToFit

\* setShrinkToFit leaving the word-wrap set
setShrinkToFit_KeepsWrap(h, shink) ==
    LET p0 == Detached(h)
        p2 == IF shink
                 /\ p0.alignmentData.alignH \in {"AlignHFill", "AlignHJustify",
                                                 "AlignHDistributed"}
              THEN [p0 EXCEPT !.alignmentData.alignH = "AlignLeft"]
              ELSE p0
    IN Mutate(h, [p2 EXCEPT !.alignmentData.shinkToFit = shink, !.dirty = TRUE])

\* setShrinkToFit leaving the horizontal alignment as it was
setShrinkToFit_KeepsAlignment(h, shink) ==
    LET p0 == Detached(h)
        p1 == IF shink /\ p0.alignmentData.wrap
              THEN [p0 EXCEPT !.alignmentData.wrap = FALSE]
              ELSE p0
    IN Mutate(h, [p1 EXCEPT !.alignmentData.shinkToFit = shink, !.dirty = TRUE])

\* void Format::setShrinkToFit(bool shink)
setShrinkToFit(h, shink) ==
    LET p0 == Detached(h)
        p1 == IF shink /\ p0.alignmentData.wrap
              THEN [p0 EXCEPT !.alignmentData.wrap = FALSE]
              ELSE p0
        p2 == IF shink
                 /\ p1.alignmentData.alignH \in {"AlignHFill", "AlignHJustify",
                                                 "AlignHDistributed"}
              THEN [p1 EXCEPT !.alignmentData.alignH = "AlignLeft"]
              ELSE p1
    IN Mutate(h, [p2 EXCEPT !.alignmentData.shinkToFit = shink, !.dirty = TRUE])

\* bool Format::alignmentChanged() const
alignmentChanged(h) ==
    \/ P(h).alignmentData.alignH # "AlignHGeneral"
    \/ P(h).alignmentData.alignV # "AlignBottom"
    \/ P(h).alignmentData.indent # 0
    \/ P(h).alignmentData.wrap
    \/ P(h).alignmentData.rotation # 0
    \/ P(h).alignmentData.shinkToFit

\* ------------------------------------------------------------------ border
\* XlsxFormatBorderData::key() const
BorderSerial(b) ==
    <<b.left, b.leftColor, b.right, b.rightColor, b.top, b.topColor,
      b.bottom, b.bottomColor, b.diagonal, b.diagonalColor, b.diagonalType>>

\* the object left by a border setter: one field written, the bundle dirty
leftBorderStyle(h) == P(h).borderData.left
SetLeftBorderStyleOf(p, style) ==
    [p EXCEPT !.borderData.left = style, !.borderData._dirty = TRUE]
setLeftBorderStyle(h, style) == Mutate(h, SetLeftBorderStyleOf(Detached(h), style))
leftBorderColor(h) == P(h).borderData.leftColor
SetLeftBorderColorOf(p, color) ==
    [p EXCEPT !.borderData.leftColor = color, !.borderData._dirty = TRUE]
setLeftBorderColor(h, color) == Mutate(h, SetLeftBorderColorOf(Detached(h), color))
rightBorderStyle(h) == P(h).borderData.right
SetRightBorderStyleOf(p, style) ==
    [p EXCEPT !.borderData.right = style, !.borderData._dirty = TRUE]
setRightBorderStyle(h, style) == Mutate(h, SetRightBorderStyleOf(Detached(h), style))
rightBorderColor(h) == P(h).borderData.rightColor
SetRightBorderColorOf(p, color) ==
    [p EXCEPT !.borderData.rightColor = color, !.borderData._dirty = TRUE]
setRightBorderColor(h, color) == Mutate(h, SetRightBorderColorOf(Detached(h), color))
topBorderStyle(h) == P(h).borderData.top
SetTopBorderStyleOf(p, style) ==
    [p EXCEPT !.borderData.top = style, !.borderData._dirty = TRUE]
setTopBorderStyle(h, style) == Mutate(h, SetTopBorderStyleOf(Detached(h), style))
topBorderColor(h) == P(h).borderData.topColor
SetTopBorderColorOf(p, color) ==
    [p EXCEPT !.borderData.topColor = color, !.borderData._dirty = TRUE]
setTopBorderColor(h, color) == Mutate(h, SetTopBorderColorOf(Detached(h), color))
bottomBorderStyle(h) == P(h).borderData.bottom
SetBottomBorderStyleOf(p, style) ==
    [p EXCEPT !.borderData.bottom = style, !.borderData._dirty = TRUE]
setBottomBorderStyle(h, style) == Mutate(h, SetBottomBorderStyleOf(Detached(h), style))
bottomBorderColor(h) == P(h).borderData.bottomColor
SetBottomBorderColorOf(p, color) ==
    [p EXCEPT !.borderData.bottomColor = color, !.borderData._dirty = TRUE]
setBottomBorderColor(h, color) == Mutate(h, SetBottomBorderColorOf(Detached(h), color))
diagonalBorderStyle(h) == P(h).borderData.diagonal
setDiagonalBorderStyle(h, style) ==
    Mutate(h, [Detached(h) EXCEPT !.borderData.diagonal = style,
                                  !.borderData._dirty = TRUE])
diagonalBorderType(h) == P(h).borderData.diagonalType
setDiagonalBorderType(h, style) ==
    Mutate(h, [Detached(h) EXCEPT !.borderData.diagonalType = style,
                                  !.borderData._dirty = TRUE])
diagonalBorderColor(h) == P(h).borderData.diagonalColor
setDiagonalBorderColor(h, color) ==
    Mutate(h, [Detached(h) EXCEPT !.borderData.diagonalColor = color,
                                  !.borderData._dirty = TRUE])

\* void Format::setBorderStyle(BorderStyle style): left, right, bottom, top in turn
setBorderStyle(h, style) ==
    Mutate(h, SetTopBorderStyleOf(
                  SetBottomBorderStyleOf(
                      SetRightBorderStyleOf(
                          SetLeftBorderStyleOf(Detached(h), style), style), style), style))

\* void Format::setBorderColor(const QColor &color): left, right, top, bottom in turn
setBorderColor(h, color) ==
    Mutate(h, SetBottomBorderColorOf(
                  SetTopBorderColorOf(
                      SetRightBorderColorOf(
                          SetLeftBorderColorOf(Detached(h), color), color), color), color))

borderIndexValid(h) == BundleIndexValid(P(h).borderData)
borderIndex(h) == P(h).borderData._index
setBorderIndex(h, index) ==
    Mutate(h, [Detached(h) EXCEPT !.borderData = BundleSetIndex(@, index)])

\* QByteArray Format::borderKey() const, on a FormatPrivate: the object afterwards
BorderKeyOf(p) ==
    LET p1 == IF p.borderData._dirty THEN [p EXCEPT !.dirty = TRUE] ELSE p
    IN [p1 EXCEPT !.borderData = BundleKey(@, BorderSerial(@))]
borderKey(h) == Cache(h, BorderKeyOf(P(h)))
borderKeyResult(h) == BorderKeyOf(P(h)).borderData._key

\* ------------------------------------------------------------------ fill
\* XlsxFormatFillData::key() const
FillSerial(f) == <<f.pattern, f.fgColor, f.bgColor>>

fillPattern(h) == P(h).fillData.pattern
\* setFillPattern marking the font bundle dirty as well
setFillPattern_DirtiesFont(h, pattern) ==
    Mutate(h, [Detached(h) EXCEPT !.fillData.pattern = pattern,
                                  !.fillData._dirty = TRUE,
                                  !.fontData._dirty = TRUE])
setFillPattern(h, pattern) ==
    Mutate(h, [Detached(h) EXCEPT !.fillData.pattern = pattern,
                                  !.fillData._dirty = TRUE])
patternForegroundColor(h) == P(h).fillData.fgColor

\* void Format::setPatternForegroundColor(const QColor &color)
setPatternForegroundColor(h, color) ==
    LET p0 == Detached(h)
        p1 == IF color # InvalidColor /\ p0.fillData.pattern = "PatternNone"
              THEN [p0 EXCEPT !.fillData.pattern = "PatternSolid"]
              ELSE p0
    IN Mutate(h, [p1 EXCEPT !.fillData.fgColor = color, !.fillData._dirty = TRUE])
patternBackgroundColor(h) == P(h).fillData.bgColor

\* setPatternBackgroundColor leaving the pattern as it was
setPatternBackgroundColor_KeepsPattern(h, color) ==
    Mutate(h, [Detached(h) EXCEPT !.fillData.bgColor = color, !.fillData._dirty = TRUE])

\* void Format::setPatternBackgroundColor(const QColor &color)
setPatternBackgroundColor(h, color) ==
    LET p0 == Detached(h)
        p1 == IF color # InvalidColor /\ p0.fillData.pattern = "PatternNone"
              THEN [p0 EXCEPT !.fillData.pattern = "PatternSolid"]
              ELSE p0
    IN Mutate(h, [p1 EXCEPT !.fillData.bgColor = color, !.fillData._dirty = TRUE])

fillIndexValid(h) == BundleIndexValid(P(h).fillData)
fillIndex(h) == P(h).fillData._index
setFillIndex(h, index) ==
    Mutate(h, [Detached(h) EXCEPT !.fillData = BundleSetIndex(@, index)])

\* QByteArray Format::fillKey() const, on a FormatPrivate: the object afterwards
FillKeyOf(p) ==
    LET p1 == IF p.fillData._dirty THEN [p EXCEPT !.dirty = TRUE] ELSE p
    IN [p1 EXCEPT !.fillData = BundleKey(@, FillSerial(@))]
fillKey(h) == Cache(h, FillKeyOf(P(h)))
fillKeyResult(h) == FillKeyOf(P(h)).fillData._key

\* ------------------------------------------------------------------ protection
hidden(h) == P(h).protectionData.hidden
setHidden(h, hid) ==
    Mutate(h, [Detached(h) EXCEPT !.protectionData.hidden = hid, !.dirty = TRUE])
locked(h) == P(h).protectionData.locked
setLocked(h, lock) ==
    Mutate(h, [Detached(h) EXCEPT !.protectionData.locked = lock, !.dirty = TRUE])

\* ------------------------------------------------------------------ whole-value key
\* the QDataStream written by formatKey(): the fields in stream order
FormatSerial(p) ==
    <<p.fontData._key, p.borderData._key, p.fillData._key,
      p.numberData.formatIndex,
      p.alignmentData.alignH, p.alignmentData.alignV, p.alignmentData.indent,
      p.alignmentData.rotation, p.alignmentData.shinkToFit, p.alignmentData.wrap,
      p.protectionData.hidden, p.protectionData.locked>>

\* QByteArray Format::formatKey() const, on a FormatPrivate: the object afterwards
FormatKeyOf(p) ==
    IF p.dirty \/ p.fontData._dirty \/ p.borderData._dirty \/ p.fillData._dirty
    THEN LET p3 == FillKeyOf(BorderKeyOf(FontKeyOf(p)))
         IN [p3 EXCEPT !.formatKey = FormatSerial(p3),
                       !.dirty = FALSE,
                       !.xf_indexValid = FALSE,
                       !.dxf_indexValid = FALSE]
    ELSE p
formatKey(h) == Cache(h, FormatKeyOf(P(h)))
formatKeyResult(h) == FormatKeyOf(P(h)).formatKey

\* setXfIndex storing the index without marking it valid
setXfIndex_NoValid(h, index) ==
    Mutate(h, [Detached(h) EXCEPT !.xf_index = index])
\* void Format::setXfIndex(int index)
setXfIndex(h, index) ==
    Mutate(h, [Detached(h) EXCEPT !.xf_index = index, !.xf_indexValid = TRUE])
xfIndex(h) == P(h).xf_index
xfIndexValid(h) == ~P(h).dirty /\ P(h).xf_indexValid

\* void Format::setDxfIndex(int index)
setDxfIndex(h, index) ==
    Mutate(h, [Detached(h) EXCEPT !.dxf_index = index, !.dxf_indexValid = TRUE])
dxfIndex(h) == P(h).dxf_index
dxfIndexValid(h) == ~P(h).dirty /\ P(h).dxf_indexValid

\* bool Format::operator ==(const Format &format) const: this->formatKey(), then
\* format.formatKey(); both cache in place
opEquals(h, g) ==
    LET heap1 == [heap EXCEPT ![d[h]] = FormatKeyOf(heap[d[h]])]
    IN /\ d' = d
       /\ heap' = [heap1 EXCEPT ![d[g]] = FormatKeyOf(heap1[d[g]])]
opEqualsResult(h, g) ==
    LET heap1 == [heap EXCEPT ![d[h]] = FormatKeyOf(heap[d[h]])]
    IN heap1[d[h]].formatKey = FormatKeyOf(heap1[d[g]]).formatKey

\* bool Format::operator !=(const Format &format) const
opNotEquals(h, g) ==
    LET heap1 == [heap EXCEPT ![d[h]] = FormatKeyOf(heap[d[h]])]
    IN /\ d' = d
       /\ heap' = [heap1 EXCEPT ![d[g]] = FormatKeyOf(heap1[d[g]])]
opNotEqualsResult(h, g) ==
    LET heap1 == [heap EXCEPT ![d[h]] = FormatKeyOf(heap[d[h]])]
    IN heap1[d[h]].formatKey # FormatKeyOf(heap1[d[g]]).formatKey

isDxfFormat(h) == P(h).is_dxf_fomat
theme(h) == P(h).theme

\* ------------------------------------------------------------------ handles
\* Format::Format()
construct(h) ==
    /\ d[h] = NULL
    /\ d' = [d EXCEPT ![h] = FreePtr]
    /\ heap' = [heap EXCEPT ![FreePtr] = FormatPrivateNew]

\* Format::Format(const Format &other)
copyConstruct(h, other) ==
    /\ d[h] = NULL
    /\ d[other] # NULL
    /\ d' = [d EXCEPT ![h] = d[other]]
    /\ heap' = heap

\* Format &Format::operator =(const Format &other); the FormatPrivate that loses
\* its last reference is destroyed
assign(h, other) ==
    /\ d[h] # NULL
    /\ d[other] # NULL
    /\ d' = [d EXCEPT ![h] = d[other]]
    /\ heap' = IF Shared(h) \/ d[h] = d[other]
               THEN heap
               ELSE [heap EXCEPT ![d[h]] = FormatPrivateNew]

\* ------------------------------------------------------------------ inputs
FontSizes == {12}
FontNames == {"Arial"}
FontScripts == {"FontScriptSuper"}
FontUnderlines == {"FontUnderlineSingle"}
Rotations == {45}
Indents == {0, 3}
Indices == {5}
XfIndices == {3, 5}
NumberFormatIndices == {14, 16}
StrGeneral == <<"0", ".", "0", "0">>
StrDate == <<"y", "y", "y", "y">>
FormatStrings == {EmptyStr, StrGeneral, StrDate}
\* a custom number format as the registry resolves it: an index with its string
NumFmts == {<<164, StrGeneral>>, <<165, StrDate>>, <<166, EmptyStr>>}

\* ------------------------------------------------------------------ calls
\* one call: the handle and heap change as A says, and the call is recorded
Call(A, name, h, arg) ==
    /\ A
    /\ last' = [op |-> name, h |-> h, arg |-> arg,
                shared |-> Constructed(h) /\ Shared(h)]

\* Spec: every member function, at most MaxOps calls
On(A, name, h, arg) ==
    /\ Constructed(h)
    /\ ops < MaxOps
    /\ Call(A, name, h, arg)
    /\ ops' = ops + 1
    /\ UNCHANGED hist

\* SpecOne: every member function, at most MaxOneOps calls
OnOne(A, name, h, arg) ==
    /\ Constructed(h)
    /\ ops < MaxOneOps
    /\ Call(A, name, h, arg)
    /\ ops' = ops + 1
    /\ UNCHANGED hist

\* SpecNumber: at most MaxNumOps calls
OnNum(A, name, h, arg) ==
    /\ Constructed(h)
    /\ ops < MaxNumOps
    /\ Call(A, name, h, arg)
    /\ ops' = ops + 1
    /\ UNCHANGED hist

\* SpecAlign, SpecDate: any number of calls; hist holds the call before the last
Free(A, name, h, arg) ==
    /\ Constructed(h)
    /\ Call(A, name, h, arg)
    /\ hist' = [hist EXCEPT ![h] = <<<<last.op, last.arg>>>>]
    /\ UNCHANGED ops

\* SpecOrder: up to MaxCalls calls on A, then the same calls on B, last first
Rec(A, name, h, arg) ==
    /\ Constructed(h)
    /\ IF h = "A"
       THEN Len(hist["A"]) < MaxCalls /\ hist["B"] = << >>
       ELSE /\ Len(hist["B"]) < Len(hist["A"])
            /\ LET c == hist["A"][Len(hist["A"]) - Len(hist["B"])]
               IN c[1] = name /\ c[2] = arg
    /\ Call(A, name, h, arg)
    /\ hist' = [hist EXCEPT ![h] = Append(@, <<name, arg>>)]
    /\ UNCHANGED ops

\* the setters of each index-bearing bundle
FontSetterNames ==
    {"setFontSize", "setFontItalic", "setFontStrikeOut", "setFontColor", "setFontBold",
     "setFontScript", "setFontUnderline", "setFontOutline", "setFontName"}
BorderSetterNames ==
    {"setBorderStyle", "setBorderColor", "setLeftBorderStyle", "setLeftBorderColor",
     "setRightBorderStyle", "setRightBorderColor", "setTopBorderStyle",
     "setTopBorderColor", "setBottomBorderStyle", "setBottomBorderColor",
     "setDiagonalBorderStyle", "setDiagonalBorderType", "setDiagonalBorderColor"}
FillSetterNames ==
    {"setFillPattern", "setPatternForegroundColor", "setPatternBackgroundColor"}

\* the index handed to a bundle since its last setter: <<i>>, or << >> for none
Handed(was, name, arg, setters, setIndex) ==
    IF name \in setters THEN << >>
    ELSE IF name = setIndex THEN <<arg>>
    ELSE was

\* SpecBundle: at most MaxBundleOps calls; hist holds, per bundle, the index handed
\* to it since its last setter
OnBundle(A, name, h, arg) ==
    /\ Constructed(h)
    /\ ops < MaxBundleOps
    /\ Call(A, name, h, arg)
    /\ ops' = ops + 1
    /\ hist' = [hist EXCEPT ![h] =
                  [font |-> Handed(@.font, name, arg, FontSetterNames, "setFontIndex"),
                   border |-> Handed(@.border, name, arg, BorderSetterNames,
                                     "setBorderIndex"),
                   fill |-> Handed(@.fill, name, arg, FillSetterNames,
                                   "setFillIndex")]]

\* the const member functions, and the copy constructor, which reads its argument
ReadNames ==
    {"isDateTimeFormat", "fontKey", "borderKey", "fillKey", "formatKey", "operator==",
     "operator!=", "Format(other)"}

\* no key taken, no index handed over
NotRegistered == [keyed |-> FALSE, xf |-> << >>, dxf |-> << >>, key |-> << >>]

\* what SpecReads records of handle x when `name` is called on h: whether
\* formatKey() was called with no setter since (keyed), and the xf or dxf index
\* handed over while keyed with only reads since, with the key of that moment
Registered(was, x, name, h, arg, key) ==
    IF name \in ReadNames
    THEN IF x = h /\ name = "formatKey" THEN [was EXCEPT !.keyed = TRUE] ELSE was
    ELSE IF x = h /\ name = "setXfIndex" /\ was.keyed
    THEN [keyed |-> TRUE, xf |-> <<arg>>, dxf |-> << >>, key |-> key]
    ELSE IF x = h /\ name = "setDxfIndex" /\ was.keyed
    THEN [keyed |-> TRUE, xf |-> << >>, dxf |-> <<arg>>, key |-> key]
    ELSE NotRegistered

\* SpecReads: at most MaxReadOps calls; hist holds what Registered records
OnReads(A, name, h, arg) ==
    /\ Constructed(h)
    /\ ops < MaxReadOps
    /\ Call(A, name, h, arg)
    /\ ops' = ops + 1
    /\ hist' = [x \in Handles |->
                  Registered(hist[x], x, name, h, arg, P(h).formatKey)]

\* SpecFrame: at most MaxFrameOps calls
OnFrame(A, name, h, arg) ==
    /\ Constructed(h)
    /\ ops < MaxFrameOps
    /\ Call(A, name, h, arg)
    /\ ops' = ops + 1
    /\ UNCHANGED hist

\* the call as the specification named `run` schedules it
Schedule(run, A, name, h, arg) ==
    IF run = "Spec" THEN On(A, name, h, arg)
    ELSE IF run = "SpecOne" THEN OnOne(A, name, h, arg)
    ELSE IF run = "SpecNumber" THEN OnNum(A, name, h, arg)
    ELSE IF run = "SpecAlign" THEN Free(A, name, h, arg)
    ELSE IF run = "SpecBundle" THEN OnBundle(A, name, h, arg)
    ELSE IF run = "SpecReads" THEN OnReads(A, name, h, arg)
    ELSE IF run = "SpecFrame" THEN OnFrame(A, name, h, arg)
    ELSE Rec(A, name, h, arg)

\* The member functions by group, each call scheduled as the specification
\* named `run` does.
NumberSetters(run) ==
    \/ \E h \in Handles, i \in NumberFormatIndices :
          Schedule(run, setNumberFormatIndex(h, i), "setNumberFormatIndex", h, i)
    \/ \E h \in Handles, s \in FormatStrings :
          Schedule(run, setNumberFormat(h, s), "setNumberFormat", h, s)

FontSetters(run) ==
    \/ \E h \in Handles, v \in FontSizes :
          Schedule(run, setFontSize(h, v), "setFontSize", h, v)
    \/ \E h \in Handles, v \in FontFlags :
          Schedule(run, setFontItalic(h, v), "setFontItalic", h, v)
    \/ \E h \in Handles, v \in FontFlags :
          Schedule(run, setFontStrikeOut(h, v), "setFontStrikeOut", h, v)
    \/ \E h \in Handles, v \in FontColors :
          Schedule(run, setFontColor(h, v), "setFontColor", h, v)
    \/ \E h \in Handles, v \in FontFlags :
          Schedule(run, setFontBold(h, v), "setFontBold", h, v)
    \/ \E h \in Handles, v \in FontScripts :
          Schedule(run, setFontScript(h, v), "setFontScript", h, v)
    \/ \E h \in Handles, v \in FontUnderlines :
          Schedule(run, setFontUnderline(h, v), "setFontUnderline", h, v)
    \/ \E h \in Handles, v \in FontFlags :
          Schedule(run, setFontOutline(h, v), "setFontOutline", h, v)
    \/ \E h \in Handles, v \in FontNames :
          Schedule(run, setFontName(h, v), "setFontName", h, v)

AlignmentSetters(run) ==
    \/ \E h \in Handles, v \in HorizontalAlignments :
          Schedule(run, setHorizontalAlignment(h, v), "setHorizontalAlignment", h, v)
    \/ \E h \in Handles, v \in VerticalAlignments :
          Schedule(run, setVerticalAlignment(h, v), "setVerticalAlignment", h, v)
    \/ \E h \in Handles, v \in BOOLEAN :
          Schedule(run, setTextWarp(h, v), "setTextWarp", h, v)
    \/ \E h \in Handles, v \in Rotations :
          Schedule(run, setRotation(h, v), "setRotation", h, v)
    \/ \E h \in Handles, v \in Indents : Schedule(run, setIndent(h, v), "setIndent", h, v)
    \/ \E h \in Handles, v \in BOOLEAN :
          Schedule(run, setShrinkToFit(h, v), "setShrinkToFit", h, v)

BorderSetters(run) ==
    \/ \E h \in Handles, v \in BorderStyles :
          Schedule(run, setBorderStyle(h, v), "setBorderStyle", h, v)
    \/ \E h \in Handles, v \in BorderColors :
          Schedule(run, setBorderColor(h, v), "setBorderColor", h, v)
    \/ \E h \in Handles, v \in BorderStyles :
          Schedule(run, setLeftBorderStyle(h, v), "setLeftBorderStyle", h, v)
    \/ \E h \in Handles, v \in BorderColors :
          Schedule(run, setLeftBorderColor(h, v), "setLeftBorderColor", h, v)
    \/ \E h \in Handles, v \in BorderStyles :
          Schedule(run, setRightBorderStyle(h, v), "setRightBorderStyle", h, v)
    \/ \E h \in Handles, v \in BorderColors :
          Schedule(run, setRightBorderColor(h, v), "setRightBorderColor", h, v)
    \/ \E h \in Handles, v \in BorderStyles :
          Schedule(run, setTopBorderStyle(h, v), "setTopBorderStyle", h, v)
    \/ \E h \in Handles, v \in BorderColors :
          Schedule(run, setTopBorderColor(h, v), "setTopBorderColor", h, v)
    \/ \E h \in Handles, v \in BorderStyles :
          Schedule(run, setBottomBorderStyle(h, v), "setBottomBorderStyle", h, v)
    \/ \E h \in Handles, v \in BorderColors :
          Schedule(run, setBottomBorderColor(h, v), "setBottomBorderColor", h, v)
    \/ \E h \in Handles, v \in BorderStyles :
          Schedule(run, setDiagonalBorderStyle(h, v), "setDiagonalBorderStyle", h, v)
    \/ \E h \in Handles, v \in DiagonalBorderTypes :
          Schedule(run, setDiagonalBorderType(h, v), "setDiagonalBorderType", h, v)
    \/ \E h \in Handles, v \in BorderColors :
          Schedule(run, setDiagonalBorderColor(h, v), "setDiagonalBorderColor", h, v)

FillSetters(run) ==
    \/ \E h \in Handles, v \in FillPatterns :
          Schedule(run, setFillPattern(h, v), "setFillPattern", h, v)
    \/ \E h \in Handles, v \in Colors :
          Schedule(run, setPatternForegroundColor(h, v), "setPatternForegroundColor", h, v)
    \/ \E h \in Handles, v \in Colors :
          Schedule(run, setPatternBackgroundColor(h, v), "setPatternBackgroundColor", h, v)

ProtectionSetters(run) ==
    \/ \E h \in Handles, v \in BOOLEAN : Schedule(run, setHidden(h, v), "setHidden", h, v)
    \/ \E h \in Handles, v \in BOOLEAN : Schedule(run, setLocked(h, v), "setLocked", h, v)

\* the internal setters the style registry writes its results back with
RegistryCalls(run) ==
    \/ \E h \in Handles, n \in NumFmts :
          Schedule(run, setNumFmt(h, n[1], n[2]), "setNumFmt", h, n)
    \/ \E h \in Handles, v \in Indices :
          Schedule(run, setFontIndex(h, v), "setFontIndex", h, v)
    \/ \E h \in Handles, v \in Indices :
          Schedule(run, setBorderIndex(h, v), "setBorderIndex", h, v)
    \/ \E h \in Handles, v \in Indices :
          Schedule(run, setFillIndex(h, v), "setFillIndex", h, v)
    \/ \E h \in Handles, v \in XfIndices :
          Schedule(run, setXfIndex(h, v), "setXfIndex", h, v)
    \/ \E h \in Handles, v \in XfIndices :
          Schedule(run, setDxfIndex(h, v), "setDxfIndex", h, v)

\* the const member functions
Reads(run) ==
    \/ \E h \in Handles : Schedule(run, isDateTimeFormat(h), "isDateTimeFormat", h, 0)
    \/ \E h \in Handles : Schedule(run, fontKey(h), "fontKey", h, 0)
    \/ \E h \in Handles : Schedule(run, borderKey(h), "borderKey", h, 0)
    \/ \E h \in Handles : Schedule(run, fillKey(h), "fillKey", h, 0)
    \/ \E h \in Handles : Schedule(run, formatKey(h), "formatKey", h, 0)
    \/ \E h \in Handles, g \in Handles :
          Constructed(g) /\ Schedule(run, opEquals(h, g), "operator==", h, g)
    \/ \E h \in Handles, g \in Handles :
          Constructed(g) /\ Schedule(run, opNotEquals(h, g), "operator!=", h, g)

\* ------------------------------------------------------------------ Spec
\* Two handles, every member function, at most MaxOps calls.
HandleCalls ==
    \/ \E h \in Handles :
          ops < MaxOps /\ Call(construct(h), "Format", h, 0)
              /\ ops' = ops + 1 /\ UNCHANGED hist
    \/ \E h \in Handles : \E g \in Handles \ {h} :
          ops < MaxOps /\ Call(copyConstruct(h, g), "Format(other)", h, g)
              /\ ops' = ops + 1 /\ UNCHANGED hist
    \/ \E h \in Handles : \E g \in Handles \ {h} :
          ops < MaxOps /\ Call(assign(h, g), "operator=", h, g)
              /\ ops' = ops + 1 /\ UNCHANGED hist

\* Format A; (B is declared later, by Format B or Format B(A))
Init ==
    /\ d = [h \in Handles |-> IF h = "A" THEN 1 ELSE NULL]
    /\ heap = [p \in Ptrs |-> FormatPrivateNew]
    /\ ops = 0
    /\ last = [op |-> "Format", h |-> "A", arg |-> 0, shared |-> FALSE]
    /\ hist = [h \in Handles |-> << >>]

Next ==
    \/ NumberSetters("Spec")
    \/ FontSetters("Spec")
    \/ AlignmentSetters("Spec")
    \/ BorderSetters("Spec")
    \/ FillSetters("Spec")
    \/ ProtectionSetters("Spec")
    \/ RegistryCalls("Spec")
    \/ Reads("Spec")
    \/ HandleCalls

Spec == Init /\ [][Next]_vars

\* ------------------------------------------------------------------ SpecOne
\* One Format, every member function, at most MaxOneOps calls.
NextOne ==
    \/ NumberSetters("SpecOne")
    \/ FontSetters("SpecOne")
    \/ AlignmentSetters("SpecOne")
    \/ BorderSetters("SpecOne")
    \/ FillSetters("SpecOne")
    \/ ProtectionSetters("SpecOne")
    \/ RegistryCalls("SpecOne")
    \/ Reads("SpecOne")

SpecOne == Init /\ [][NextOne]_vars

\* ------------------------------------------------------------------ SpecNumber
\* One Format, its number format and its registration, at most MaxNumOps calls.
NextNumber ==
    \/ NumberSetters("SpecNumber")
    \/ RegistryCalls("SpecNumber")
    \/ Reads("SpecNumber")

SpecNumber == Init /\ [][NextNumber]_vars

\* ------------------------------------------------------------------ SpecAlign
\* One Format, its alignment and protection setters, any number of calls; hist
\* holds the call before the last one.
NextAlign ==
    \/ AlignmentSetters("SpecAlign")
    \/ ProtectionSetters("SpecAlign")

SpecAlign == Init /\ [][NextAlign]_vars

\* ------------------------------------------------------------------ SpecDate
\* isDateTimeFormat() over the number formats a Format can hold: setNumFmt(i, s)
\* leaves any index with any string, a later setNumberFormat(s) any index with a
\* non-empty string and the index not valid.
Pieces ==
    { <<"[", "R", "e", "d", "]">>, <<"[", "C", "y", "a", "n", "]">>,
      <<"[", "W", "h", "i", "t", "e", "]">>, <<"[", "G", "r", "e", "e", "n", "]">>,
      <<"[", "c", "y", "a", "n", "]">>, <<"[", "R", "e">>, <<"d", "]">>,
      <<"0">>, <<"s">>, <<"D">> }

RECURSIVE Concats(_)
Concats(n) ==
    IF n = 0 THEN {<< >>}
    ELSE LET shorter == Concats(n - 1)
         IN shorter \cup {s \o pc : s \in shorter, pc \in Pieces}

DateIndices == {0, 14, 15, 22, 23, 44, 45, 47, 48, 164}

NumberDatas ==
    {nd \in [formatIndex : DateIndices, formatString : Concats(MaxPieces),
             _valid : BOOLEAN] :
        nd._valid \/ nd.formatString # EmptyStr}

InitDate ==
    /\ d = [h \in Handles |-> IF h = "A" THEN 1 ELSE NULL]
    /\ \E nd \in NumberDatas :
          heap = [p \in Ptrs |-> IF p = 1
                                 THEN [FormatPrivateNew EXCEPT !.numberData = nd]
                                 ELSE FormatPrivateNew]
    /\ ops = 0
    /\ last = [op |-> "input", h |-> "A", arg |-> 0, shared |-> FALSE]
    /\ hist = [h \in Handles |-> << >>]

NextDate == \E h \in Handles : Free(isDateTimeFormat(h), "isDateTimeFormat", h, 0)

SpecDate == InitDate /\ [][NextDate]_vars

\* ------------------------------------------------------------------ SpecOrder
\* Format A, B; up to MaxCalls attribute setter calls on A, then the same calls
\* on B in the opposite order.
InitOrder ==
    /\ d = [h \in Handles |-> IF h = "A" THEN 1 ELSE 2]
    /\ heap = [p \in Ptrs |-> FormatPrivateNew]
    /\ ops = 0
    /\ last = [op |-> "Format", h |-> "B", arg |-> 0, shared |-> FALSE]
    /\ hist = [h \in Handles |-> << >>]

NextOrder ==
    \/ NumberSetters("SpecOrder")
    \/ FontSetters("SpecOrder")
    \/ AlignmentSetters("SpecOrder")
    \/ BorderSetters("SpecOrder")
    \/ FillSetters("SpecOrder")
    \/ ProtectionSetters("SpecOrder")

SpecOrder == InitOrder /\ [][NextOrder]_vars

\* ------------------------------------------------------------------ SpecBundle
\* One Format, the font, border and fill setters, the indices of the three
\* bundles, the protection setters and the const member functions.
BundleIndices == {5, 7}

BundleIndexCalls(run) ==
    \/ \E h \in Handles, v \in BundleIndices :
          Schedule(run, setFontIndex(h, v), "setFontIndex", h, v)
    \/ \E h \in Handles, v \in BundleIndices :
          Schedule(run, setBorderIndex(h, v), "setBorderIndex", h, v)
    \/ \E h \in Handles, v \in BundleIndices :
          Schedule(run, setFillIndex(h, v), "setFillIndex", h, v)

InitBundle ==
    /\ d = [h \in Handles |-> IF h = "A" THEN 1 ELSE NULL]
    /\ heap = [p \in Ptrs |-> FormatPrivateNew]
    /\ ops = 0
    /\ last = [op |-> "Format", h |-> "A", arg |-> 0, shared |-> FALSE]
    /\ hist = [h \in Handles |-> [font |-> << >>, border |-> << >>, fill |-> << >>]]

NextBundle ==
    \/ FontSetters("SpecBundle")
    \/ BorderSetters("SpecBundle")
    \/ FillSetters("SpecBundle")
    \/ ProtectionSetters("SpecBundle")
    \/ BundleIndexCalls("SpecBundle")
    \/ Reads("SpecBundle")

SpecBundle == InitBundle /\ [][NextBundle]_vars

\* ------------------------------------------------------------------ SpecReads
\* Two handles, B a copy of A when it is declared: the const member functions,
\* the xf and dxf indices, and two of the setters.
XfCalls(run) ==
    \/ \E h \in Handles, v \in XfIndices :
          Schedule(run, setXfIndex(h, v), "setXfIndex", h, v)
    \/ \E h \in Handles, v \in XfIndices :
          Schedule(run, setDxfIndex(h, v), "setDxfIndex", h, v)

\* a setter that marks only its bundle dirty and one that marks the whole value
SomeSetters(run) ==
    \/ \E h \in Handles, v \in FontSizes :
          Schedule(run, setFontSize(h, v), "setFontSize", h, v)
    \/ \E h \in Handles, v \in BOOLEAN : Schedule(run, setHidden(h, v), "setHidden", h, v)

CopyCalls ==
    \E h \in Handles : \E g \in Handles \ {h} :
        /\ ops < MaxReadOps
        /\ Call(copyConstruct(h, g), "Format(other)", h, g)
        /\ ops' = ops + 1
        /\ UNCHANGED hist

InitReads ==
    /\ d = [h \in Handles |-> IF h = "A" THEN 1 ELSE NULL]
    /\ heap = [p \in Ptrs |-> FormatPrivateNew]
    /\ ops = 0
    /\ last = [op |-> "Format", h |-> "A", arg |-> 0, shared |-> FALSE]
    /\ hist = [h \in Handles |-> NotRegistered]

NextReads ==
    \/ Reads("SpecReads")
    \/ XfCalls("SpecReads")
    \/ SomeSetters("SpecReads")
    \/ CopyCalls

SpecReads == InitReads /\ [][NextReads]_vars

\* ------------------------------------------------------------------ SpecFrame
\* One Format, fresh or as the style registry leaves it, and every attribute
\* setter and key accessor.
\* the FormatPrivate after formatKey(), setFontIndex(5), setBorderIndex(5),
\* setFillIndex(5), setXfIndex(3)
RegisteredPrivate ==
    [FormatKeyOf(FormatPrivateNew) EXCEPT !.fontData = BundleSetIndex(@, 5),
                                          !.borderData = BundleSetIndex(@, 5),
                                          !.fillData = BundleSetIndex(@, 5),
                                          !.xf_index = 3,
                                          !.xf_indexValid = TRUE]

InitFrame ==
    /\ d = [h \in Handles |-> IF h = "A" THEN 1 ELSE NULL]
    /\ \E p \in {FormatPrivateNew, RegisteredPrivate} :
          heap = [q \in Ptrs |-> IF q = 1 THEN p ELSE FormatPrivateNew]
    /\ ops = 0
    /\ last = [op |-> "Format", h |-> "A", arg |-> 0, shared |-> FALSE]
    /\ hist = [h \in Handles |-> << >>]

NextFrame ==
    \/ NumberSetters("SpecFrame")
    \/ FontSetters("SpecFrame")
    \/ AlignmentSetters("SpecFrame")
    \/ BorderSetters("SpecFrame")
    \/ FillSetters("SpecFrame")
    \/ ProtectionSetters("SpecFrame")
    \/ Reads("SpecFrame")

SpecFrame == InitFrame /\ [][NextFrame]_vars

\* ------------------------------------------------------------------ names
AttributeSetters ==
    {"setNumberFormatIndex", "setNumberFormat",
     "setFontSize", "setFontItalic", "setFontStrikeOut", "setFontColor", "setFontBold",
     "setFontScript", "setFontUnderline", "setFontOutline", "setFontName",
     "setHorizontalAlignment", "setVerticalAlignment", "setTextWarp", "setRotation",
     "setIndent", "setShrinkToFit",
     "setBorderStyle", "setBorderColor", "setLeftBorderStyle", "setLeftBorderColor",
     "setRightBorderStyle", "setRightBorderColor", "setTopBorderStyle",
     "setTopBorderColor", "setBottomBorderStyle", "setBottomBorderColor",
     "setDiagonalBorderStyle", "setDiagonalBorderType", "setDiagonalBorderColor",
     "setFillPattern", "setPatternForegroundColor", "setPatternBackgroundColor",
     "setHidden", "setLocked"}
RegistrySetters ==
    {"setNumFmt", "setFontIndex", "setBorderIndex", "setFillIndex", "setXfIndex",
     "setDxfIndex"}
MutatingOps == AttributeSetters \cup RegistrySetters

\* every attribute getter of a handle
Getters(h) ==
    <<numberFormatIndex(h), numberFormat(h), numFmtIndexValid(h),
      isDateTimeFormatResult(h),
      fontSize(h), fontItalic(h), fontStrikeOut(h), fontColor(h), fontBold(h),
      fontScript(h), fontUnderline(h), fontOutline(h), fontName(h), fontFamily(h),
      fontShadow(h), fontScheme(h),
      horizontalAlignment(h), verticalAlignment(h), textWrap(h), rotation(h),
      indent(h), shrinkToFit(h), alignmentChanged(h),
      leftBorderStyle(h), leftBorderColor(h), rightBorderStyle(h), rightBorderColor(h),
      topBorderStyle(h), topBorderColor(h), bottomBorderStyle(h), bottomBorderColor(h),
      diagonalBorderStyle(h), diagonalBorderType(h), diagonalBorderColor(h),
      fillPattern(h), patternForegroundColor(h), patternBackgroundColor(h),
      hidden(h), locked(h), isDxfFormat(h), theme(h)>>

\* the keys, the cached indices and the index-validity results of a handle
KeysAndIndices(h) ==
    <<formatKeyResult(h), fontKeyResult(h), borderKeyResult(h), fillKeyResult(h),
      xfIndex(h), xfIndexValid(h), dxfIndex(h), dxfIndexValid(h),
      fontIndex(h), fontIndexValid(h), borderIndex(h), borderIndexValid(h),
      fillIndex(h), fillIndexValid(h)>>

C2_AlwaysValidAfterSet ==
    /\ last.op = "setXfIndex" => xfIndexValid(last.h) /\ xfIndex(last.h) = last.arg
    /\ last.op = "setDxfIndex" => dxfIndexValid(last.h) /\ dxfIndex(last.h) = last.arg

\* C2 as amended: right after setXfIndex(i), xfIndex() is i, and xfIndexValid()
\* is true exactly when the whole-value dirty flag was clear at the call (as it
\* is right after formatKey()); the same for setDxfIndex(i).
C2_ValidAfterSetIffClean ==
    [][\A h \in Handles :
          /\ (last'.op = "setXfIndex" /\ last'.h = h)
                => /\ xfIndex(h)' = last'.arg
                   /\ xfIndexValid(h)' <=> ~P(h).dirty
                   /\ (last.op = "formatKey" /\ last.h = h) => xfIndexValid(h)'
          /\ (last'.op = "setDxfIndex" /\ last'.h = h)
                => /\ dxfIndex(h)' = last'.arg
                   /\ dxfIndexValid(h)' <=> ~P(h).dirty
                   /\ (last.op = "formatKey" /\ last.h = h) => dxfIndexValid(h)'
      ]_vars

\* setXfIndex right after formatKey(): the index is valid
C2_Witness ==
    /\ last.op = "setXfIndex"
    /\ xfIndexValid(last.h)
    /\ xfIndex(last.h) = last.arg

\* ------------------------------------------------------------------ C3
\* a setter call that changes state: every attribute setter but setNumberFormat("")
ChangingSetterCall(c) ==
    /\ c.op \in AttributeSetters \cup {"setNumFmt"}
    /\ ~(c.op = "setNumberFormat" /\ c.arg = EmptyStr)

\* C3 as claimed: a state-changing setter (or setNumFmt) makes xfIndexValid() and
\* dxfIndexValid() false at once, and they stay false until setXfIndex /
\* setDxfIndex is called again.
C3_SetterInvalidatesIndex ==
    [][\A h \in Handles :
          /\ (ChangingSetterCall(last') /\ last'.h = h)
                => ~xfIndexValid(h)' /\ ~dxfIndexValid(h)'
          /\ (Constructed(h) /\ ~xfIndexValid(h) /\ last'.op # "setXfIndex")
                => ~xfIndexValid(h)'
          /\ (Constructed(h) /\ ~dxfIndexValid(h) /\ last'.op # "setDxfIndex")
                => ~dxfIndexValid(h)'
      ]_vars

\* ------------------------------------------------------------------ C5
\* the attribute a setter is the setter of
AttrOf(op, p) ==
    CASE op = "setNumberFormatIndex" -> p.numberData.formatIndex
      [] op = "setNumberFormat" -> p.numberData.formatString
      [] op = "setFontSize" -> p.fontData.size
      [] op = "setFontItalic" -> p.fontData.italic
      [] op = "setFontStrikeOut" -> p.fontData.strikeOut
      [] op = "setFontColor" -> p.fontData.color
      [] op = "setFontBold" -> p.fontData.bold
      [] op = "setFontScript" -> p.fontData.scirpt
      [] op = "setFontUnderline" -> p.fontData.underline
      [] op = "setFontOutline" -> p.fontData.outline
      [] op = "setFontName" -> p.fontData.name
      [] op = "setHorizontalAlignment" -> p.alignmentData.alignH
      [] op = "setVerticalAlignment" -> p.alignmentData.alignV
      [] op = "setTextWarp" -> p.alignmentData.wrap
      [] op = "setRotation" -> p.alignmentData.rotation
      [] op = "setIndent" -> p.alignmentData.indent
      [] op = "setShrinkToFit" -> p.alignmentData.shinkToFit
      [] op = "setBorderStyle" ->
            <<p.borderData.left, p.borderData.right, p.borderData.top,
              p.borderData.bottom>>
      [] op = "setBorderColor" ->
            <<p.borderData.leftColor, p.borderData.rightColor, p.borderData.topColor,
              p.borderData.bottomColor>>
      [] op = "setLeftBorderStyle" -> p.borderData.left
      [] op = "setLeftBorderColor" -> p.borderData.leftColor
      [] op = "setRightBorderStyle" -> p.borderData.right
      [] op = "setRightBorderColor" -> p.borderData.rightColor
      [] op = "setTopBorderStyle" -> p.borderData.top
      [] op = "setTopBorderColor" -> p.borderData.topColor
      [] op = "setBottomBorderStyle" -> p.borderData.bottom
      [] op = "setBottomBorderColor" -> p.borderData.bottomColor
      [] op = "setDiagonalBorderStyle" -> p.borderData.diagonal
      [] op = "setDiagonalBorderType" -> p.borderData.diagonalType
      [] op = "setDiagonalBorderColor" -> p.borderData.diagonalColor
      [] op = "setFillPattern" -> p.fillData.pattern
      [] op = "setPatternForegroundColor" -> p.fillData.fgColor
      [] op = "setPatternBackgroundColor" -> p.fillData.bgColor
      [] op = "setHidden" -> p.protectionData.hidden
      [] op = "setLocked" -> p.protectionData.locked

\* C5 as claimed: when two Formats compare equal and a setter gives an attribute
\* of one of them a different value, operator== is false and operator!= true.
C5_EqualityDiscriminates ==
    [][\A h \in Handles : \A g \in Handles \ {h} : \A op \in AttributeSetters :
          (/\ Constructed(h) /\ Constructed(g)
           /\ opEqualsResult(h, g)
           /\ last'.op = op /\ last'.h = h
           /\ AttrOf(op, P(h))' # AttrOf(op, P(h)))
              => ~opEqualsResult(h, g)' /\ opNotEqualsResult(h, g)'
      ]_vars

\* ------------------------------------------------------------------ C6
\* a fresh serialization of the current state, in the order of formatKey()
FreshKey(p) ==
    <<FontSerial(p.fontData), BorderSerial(p.borderData), FillSerial(p.fillData),
      p.numberData.formatIndex,
      p.alignmentData.alignH, p.alignmentData.alignV, p.alignmentData.indent,
      p.alignmentData.rotation, p.alignmentData.shinkToFit, p.alignmentData.wrap,
      p.protectionData.hidden, p.protectionData.locked>>

\* C6 as claimed: in every reachable state formatKey() returns the fresh
\* serialization of the current state, never a stale cached key.
C6_KeyFresh ==
    \A h \in Handles : Constructed(h) => formatKeyResult(h) = FreshKey(P(h))

\* ------------------------------------------------------------------ C4
\* the serialized attributes a setter reads or writes
Touches(op) ==
    CASE op = "setNumberFormatIndex" -> {"formatIndex"}
      [] op = "setNumberFormat" -> {}
      [] op = "setHorizontalAlignment" -> {"alignH", "indent", "shinkToFit"}
      [] op = "setVerticalAlignment" -> {"alignV"}
      [] op = "setTextWarp" -> {"wrap", "shinkToFit"}
      [] op = "setRotation" -> {"rotation"}
      [] op = "setIndent" -> {"indent", "alignH"}
      [] op = "setShrinkToFit" -> {"shinkToFit", "wrap", "alignH"}
      [] op = "setBorderStyle" -> {"left", "right", "top", "bottom"}
      [] op = "setBorderColor" ->
            {"leftColor", "rightColor", "topColor", "bottomColor"}
      [] op = "setLeftBorderStyle" -> {"left"}
      [] op = "setLeftBorderColor" -> {"leftColor"}
      [] op = "setRightBorderStyle" -> {"right"}
      [] op = "setRightBorderColor" -> {"rightColor"}
      [] op = "setTopBorderStyle" -> {"top"}
      [] op = "setTopBorderColor" -> {"topColor"}
      [] op = "setBottomBorderStyle" -> {"bottom"}
      [] op = "setBottomBorderColor" -> {"bottomColor"}
      [] op = "setDiagonalBorderStyle" -> {"diagonal"}
      [] op = "setDiagonalBorderType" -> {"diagonalType"}
      [] op = "setDiagonalBorderColor" -> {"diagonalColor"}
      [] op = "setFillPattern" -> {"pattern"}
      [] op = "setPatternForegroundColor" -> {"fgColor", "pattern"}
      [] op = "setPatternBackgroundColor" -> {"bgColor", "pattern"}
      [] OTHER -> {op}

\* no two of the calls touch a common attribute
Independent(calls) ==
    \A i, j \in 1..Len(calls) :
        i # j => Touches(calls[i][1]) \cap Touches(calls[j][1]) = {}

\* A got its calls, B the same calls in the opposite order
OrderDone ==
    /\ Len(hist["A"]) >= 2
    /\ Len(hist["B"]) = Len(hist["A"])

\* every call is to a different setter
DistinctSetters(calls) ==
    \A i, j \in 1..Len(calls) : i # j => calls[i][1] # calls[j][1]

\* C4 as claimed: the same setter calls, each to a different setter and whatever
\* the setters, applied in two different orders give byte-identical formatKey()
\* and operator== true.
C4_AnyOrderSameKey ==
    (OrderDone /\ DistinctSetters(hist["A"]))
        => /\ formatKeyResult("A") = formatKeyResult("B")
           /\ opEqualsResult("A", "B")

\* C4 as amended: the same setter calls in two different orders give
\* byte-identical formatKey() and operator== true when no two of the calls read
\* or write a common attribute.
C4_IndependentOrderSameKey ==
    (OrderDone /\ Independent(hist["A"]))
        => /\ formatKeyResult("A") = formatKeyResult("B")
           /\ opEqualsResult("A", "B")
           /\ ~opNotEqualsResult("A", "B")

\* two independent calls were made on A and, reversed, on B, and changed the key
C4_Witness ==
    /\ OrderDone
    /\ Independent(hist["A"])
    /\ hist["A"][1] # hist["B"][1]
    /\ formatKeyResult("A") = formatKeyResult("B")
    /\ formatKeyResult("A") # FreshKey(FormatPrivateNew)

\* ------------------------------------------------------------------ C7, C8
\* every getter of a handle but those of the alignment
NonAlignmentGetters(h) ==
    SubSeq(Getters(h), 1, 16) \o SubSeq(Getters(h), 24, Len(Getters(h)))

\* C7: setHorizontalAlignment(a) leaves horizontalAlignment() = a; indent()
\* becomes 0 if it was non-zero and a is not general, left, right or distributed,
\* and is otherwise unchanged; shrinkToFit() becomes false if it was true and a
\* is fill, justify or distributed, and is otherwise unchanged; vertical
\* alignment, rotation, word-wrap and every non-alignment attribute are unchanged.
C7_SetHorizontalAlignmentPost ==
    [][\A h \in Handles :
          (last'.op = "setHorizontalAlignment" /\ last'.h = h)
              => /\ horizontalAlignment(h)' = last'.arg
                 /\ indent(h)' =
                       IF indent(h) # 0
                          /\ last'.arg \notin {"AlignHGeneral", "AlignLeft",
                                               "AlignRight", "AlignHDistributed"}
                       THEN 0 ELSE indent(h)
                 /\ shrinkToFit(h)' =
                       IF shrinkToFit(h)
                          /\ last'.arg \in {"AlignHFill", "AlignHJustify",
                                            "AlignHDistributed"}
                       THEN FALSE ELSE shrinkToFit(h)
                 /\ verticalAlignment(h)' = verticalAlignment(h)
                 /\ rotation(h)' = rotation(h)
                 /\ textWrap(h)' = textWrap(h)
                 /\ NonAlignmentGetters(h)' = NonAlignmentGetters(h)]_vars

\* setIndent(3) and then setHorizontalAlignment(justify): the indent was reset
C7_Witness ==
    /\ hist["A"] = << <<"setIndent", 3>> >>
    /\ last.op = "setHorizontalAlignment"
    /\ last.arg = "AlignHJustify"
    /\ horizontalAlignment("A") = "AlignHJustify"
    /\ indent("A") = 0

\* C8: setShrinkToFit(true) leaves shrinkToFit() true, textWrap() false and
\* horizontalAlignment() left if it was fill, justify or distributed and
\* otherwise unchanged; setShrinkToFit(false) only clears shrinkToFit;
\* setTextWarp(true) leaves textWrap() true and shrinkToFit() false;
\* setTextWarp(false) changes only the wrap flag.
C8_ShrinkAndWrapPost ==
    [][\A h \in Handles :
          /\ (last'.op = "setShrinkToFit" /\ last'.h = h /\ last'.arg)
                => /\ shrinkToFit(h)'
                   /\ ~textWrap(h)'
                   /\ horizontalAlignment(h)' =
                         IF horizontalAlignment(h) \in
                               {"AlignHFill", "AlignHJustify", "AlignHDistributed"}
                         THEN "AlignLeft" ELSE horizontalAlignment(h)
          /\ (last'.op = "setShrinkToFit" /\ last'.h = h /\ ~last'.arg)
                => /\ ~shrinkToFit(h)'
                   /\ textWrap(h)' = textWrap(h)
                   /\ horizontalAlignment(h)' = horizontalAlignment(h)
          /\ (last'.op = "setTextWarp" /\ last'.h = h /\ last'.arg)
                => /\ textWrap(h)'
                   /\ ~shrinkToFit(h)'
          /\ (last'.op = "setTextWarp" /\ last'.h = h /\ ~last'.arg)
                => /\ ~textWrap(h)'
                   /\ shrinkToFit(h)' = shrinkToFit(h)
          /\ (last'.op \in {"setShrinkToFit", "setTextWarp"} /\ last'.h = h)
                => /\ verticalAlignment(h)' = verticalAlignment(h)
                   /\ rotation(h)' = rotation(h)
                   /\ indent(h)' = indent(h)
                   /\ NonAlignmentGetters(h)' = NonAlignmentGetters(h)
                   /\ last'.op = "setTextWarp"
                         => horizontalAlignment(h)' = horizontalAlignment(h)]_vars

\* setTextWarp(true) and then setShrinkToFit(true): the word-wrap was cleared
C8_Witness ==
    /\ hist["A"] = << <<"setTextWarp", TRUE>> >>
    /\ last.op = "setShrinkToFit"
    /\ last.arg = TRUE
    /\ shrinkToFit("A")
    /\ ~textWrap("A")

\* ------------------------------------------------------------------ C9
\* position i of s lies inside an occurrence of a bracketed color token
InColorToken(s, i) ==
    \E tok \in ColorTokens :
        \E j \in 1..Len(s) : MatchesAt(s, j, tok) /\ j <= i /\ i < j + Len(tok)

\* C9: with a valid number format index and an empty format string,
\* isDateTimeFormat() is true iff the index is in [15,22] or [45,47]; in every
\* other state it is true iff the format string has one of the characters d, m,
\* h, y, s outside every occurrence of the bracketed color tokens. The call
\* changes no state.
C9_IsDateTimeFormat ==
    [][\A h \in Handles :
          (last'.op = "isDateTimeFormat" /\ last'.h = h)
              => /\ isDateTimeFormatResult(h) =
                       IF numFmtIndexValid(h) /\ numberFormat(h) = EmptyStr
                       THEN numberFormatIndex(h) \in (15..22) \cup (45..47)
                       ELSE \E i \in 1..Len(numberFormat(h)) :
                               /\ numberFormat(h)[i] \in {"d", "m", "h", "y", "s"}
                               /\ ~InColorToken(numberFormat(h), i)
                 /\ d' = d
                 /\ heap' = heap]_vars

\* isDateTimeFormat() was called on the format string "[Red]0" and is false
C9_Witness ==
    /\ last.op = "isDateTimeFormat"
    /\ numberFormat("A") = <<"[", "R", "e", "d", "]", "0">>
    /\ ~isDateTimeFormatResult("A")

\* ------------------------------------------------------------------ C10
\* C10: setNumberFormat("") is a complete no-op: the format string, the format
\* index, numFmtIndexValid(), the whole-value dirty flag, the cached key,
\* xfIndexValid(), dxfIndexValid() and every other attribute are as before the
\* call; a valid xf index stays valid.
C10_EmptyNumberFormatNoOp ==
    [][\A h \in Handles :
          (last'.op = "setNumberFormat" /\ last'.h = h /\ last'.arg = EmptyStr)
              => /\ numberFormat(h)' = numberFormat(h)
                 /\ numberFormatIndex(h)' = numberFormatIndex(h)
                 /\ numFmtIndexValid(h)' = numFmtIndexValid(h)
                 /\ P(h)'.dirty = P(h).dirty
                 /\ P(h)'.formatKey = P(h).formatKey
                 /\ xfIndexValid(h)' = xfIndexValid(h)
                 /\ dxfIndexValid(h)' = dxfIndexValid(h)
                 /\ Getters(h)' = Getters(h)
                 /\ KeysAndIndices(h)' = KeysAndIndices(h)
                 /\ d' = d
                 /\ heap' = heap]_vars

\* setNumberFormat("") was called on a Format whose xf index is valid, and the
\* index is still valid
C10_Witness ==
    /\ last.op = "setNumberFormat"
    /\ last.arg = EmptyStr
    /\ xfIndexValid("A")
    /\ xfIndex("A") = 5

C12_DirtinessComposes ==
    /\ [](\A h \in Handles :
             Constructed(h) => formatKeyResult(h) = FreshKey(P(h)))
    /\ [][\A h \in Handles :
             /\ (last'.op = "fontKey" /\ last'.h = h /\ P(h).fontData._dirty)
                   => P(h)'.dirty /\ ~P(h)'.fontData._dirty
             /\ (last'.op = "borderKey" /\ last'.h = h /\ P(h).borderData._dirty)
                   => P(h)'.dirty /\ ~P(h)'.borderData._dirty
             /\ (last'.op = "fillKey" /\ last'.h = h /\ P(h).fillData._dirty)
                   => P(h)'.dirty /\ ~P(h)'.fillData._dirty]_vars

\* formatKey(), a font setter and then fontKey(): the bundle flag is clear, the
\* whole-value flag is set and the cached whole-value key is out of date
C12_Witness ==
    /\ last.op = "fontKey"
    /\ fontSize("A") = 12
    /\ ~P("A").fontData._dirty
    /\ P("A").dirty
    /\ P("A").formatKey # << >>
    /\ P("A").formatKey # FreshKey(P("A"))

\* ------------------------------------------------------------------ C13
\* C13: after every sequence of setter calls on a default-constructed Format,
\* textWrap() and shrinkToFit() are not both true.
C13_WrapExcludesShrink ==
    \A h \in Handles : Constructed(h) => ~(textWrap(h) /\ shrinkToFit(h))

\* setShrinkToFit(true) and then setTextWarp(true): shrink-to-fit was cleared
C13_Witness ==
    /\ hist["A"] = << <<"setShrinkToFit", TRUE>> >>
    /\ last.op = "setTextWarp"
    /\ last.arg = TRUE
    /\ textWrap("A")
    /\ ~shrinkToFit("A")

\* ------------------------------------------------------------------ C14
\* C14: after every sequence of setter calls on a default-constructed Format,
\* whenever shrinkToFit() is true, horizontalAlignment() is none of fill, justify
\* and distributed.
C14_ShrinkExcludesFillJustify ==
    \A h \in Handles :
        (Constructed(h) /\ shrinkToFit(h))
            => horizontalAlignment(h) \notin
                  {"AlignHFill", "AlignHJustify", "AlignHDistributed"}

\* setHorizontalAlignment(fill) and then setShrinkToFit(true): the alignment was
\* reset to left
C14_Witness ==
    /\ hist["A"] = << <<"setHorizontalAlignment", "AlignHFill">> >>
    /\ last.op = "setShrinkToFit"
    /\ last.arg = TRUE
    /\ shrinkToFit("A")
    /\ horizontalAlignment("A") = "AlignLeft"

\* ------------------------------------------------------------------ C15
\* C15 as claimed: after every sequence of setter calls on a default-constructed
\* Format, whenever indent() is non-zero, horizontalAlignment() is one of
\* general, left, right and distributed.
C15_IndentImpliesCompatibleAlignment ==
    \A h \in Handles :
        (Constructed(h) /\ indent(h) # 0)
            => horizontalAlignment(h) \in
                  {"AlignHGeneral", "AlignLeft", "AlignRight", "AlignHDistributed"}

\* ------------------------------------------------------------------ C16
\* C16: after every sequence of setNumberFormatIndex, setNumberFormat and
\* setNumFmt calls on a default-constructed Format, whenever numFmtIndexValid()
\* is false, numberFormat() is a non-empty string.
C16_NotValidHasString ==
    \A h \in Handles :
        (Constructed(h) /\ ~numFmtIndexValid(h)) => numberFormat(h) # EmptyStr

\* setNumFmt(166, "") emptied the string, and setNumberFormat("yyyy") then made
\* the index not valid
C16_Witness ==
    /\ last.op = "setNumberFormat"
    /\ ~numFmtIndexValid("A")
    /\ numberFormatIndex("A") = 166
    /\ numberFormat("A") = StrDate

\* ------------------------------------------------------------------ C17
\* C17 as claimed: when setNumberFormatIndex(i) is the most recent number-format
\* call, numFmtIndexValid() is true, numberFormatIndex() is i, and
\* isDateTimeFormat() is true iff i is in [15,22] or [45,47], whatever
\* setNumberFormat and setNumFmt calls came before.
C17_IndexAuthoritative ==
    \A h \in Handles :
        (last.op = "setNumberFormatIndex" /\ last.h = h)
            => /\ numFmtIndexValid(h)
               /\ numberFormatIndex(h) = last.arg
               /\ isDateTimeFormatResult(h) <=> last.arg \in (15..22) \cup (45..47)

\* ------------------------------------------------------------------ C18
\* C18: if formatKey() is called and then setXfIndex(i) (or setDxfIndex(i)) with
\* no setter in between, then after any further calls that are all reads (the
\* const member functions and copy construction of other handles) xfIndexValid()
\* is still true, xfIndex() is still i and formatKey() still returns the same
\* bytes (likewise dxfIndexValid() and dxfIndex()).
C18_ReadsKeepIndex ==
    \A h \in Handles :
        Constructed(h) =>
            /\ hist[h].xf # << >>
                  => /\ xfIndexValid(h)
                     /\ hist[h].xf = <<xfIndex(h)>>
                     /\ formatKeyResult(h) = hist[h].key
            /\ hist[h].dxf # << >>
                  => /\ dxfIndexValid(h)
                     /\ hist[h].dxf = <<dxfIndex(h)>>
                     /\ formatKeyResult(h) = hist[h].key

\* formatKey(), setXfIndex(3), Format B(A) and then B == A: the xf index of A is
\* still valid
C18_Witness ==
    /\ hist["A"].xf = <<3>>
    /\ last.op = "operator=="
    /\ last.h = "B"
    /\ last.arg = "A"
    /\ xfIndexValid("A")
    /\ xfIndex("A") = 3

\* ------------------------------------------------------------------ C19
\* the attribute values, sub-key, cached index and index validity of each bundle
FontPart(h) ==
    <<fontSize(h), fontItalic(h), fontStrikeOut(h), fontColor(h), fontBold(h),
      fontScript(h), fontUnderline(h), fontOutline(h), fontName(h), fontFamily(h),
      fontShadow(h), fontScheme(h),
      fontKeyResult(h), fontIndex(h), fontIndexValid(h)>>
BorderPart(h) ==
    <<leftBorderStyle(h), leftBorderColor(h), rightBorderStyle(h), rightBorderColor(h),
      topBorderStyle(h), topBorderColor(h), bottomBorderStyle(h), bottomBorderColor(h),
      diagonalBorderStyle(h), diagonalBorderType(h), diagonalBorderColor(h),
      borderKeyResult(h), borderIndex(h), borderIndexValid(h)>>
FillPart(h) ==
    <<fillPattern(h), patternForegroundColor(h), patternBackgroundColor(h),
      fillKeyResult(h), fillIndex(h), fillIndexValid(h)>>
\* the sub-keys and index validity of the three bundles
SubKeysAndValidity(h) ==
    <<fontKeyResult(h), borderKeyResult(h), fillKeyResult(h),
      fontIndexValid(h), borderIndexValid(h), fillIndexValid(h)>>

\* C19: a setter of one of the font, border and fill bundles leaves the other
\* two bundles' attribute values, sub-keys, cached indices and index-validity
\* results unchanged, and every number-format, alignment and protection setter
\* leaves fontIndexValid(), borderIndexValid(), fillIndexValid() and the three
\* sub-keys unchanged.
C19_BundleIndependence ==
    [][\A h \in Handles :
          /\ (last'.op \in FontSetterNames /\ last'.h = h)
                => BorderPart(h)' = BorderPart(h) /\ FillPart(h)' = FillPart(h)
          /\ (last'.op \in BorderSetterNames /\ last'.h = h)
                => FontPart(h)' = FontPart(h) /\ FillPart(h)' = FillPart(h)
          /\ (last'.op \in FillSetterNames /\ last'.h = h)
                => FontPart(h)' = FontPart(h) /\ BorderPart(h)' = BorderPart(h)
          /\ (/\ last'.op \in AttributeSetters
              /\ last'.op \notin FontSetterNames \cup BorderSetterNames
                                    \cup FillSetterNames
              /\ last'.h = h)
                => SubKeysAndValidity(h)' = SubKeysAndValidity(h)]_vars

\* a border setter on a Format with all three bundle indices valid: the font and
\* fill indices are still valid, the border index is not
C19_Witness ==
    /\ last.op = "setLeftBorderStyle"
    /\ fontIndexValid("A")
    /\ fontIndex("A") = 5
    /\ fillIndexValid("A")
    /\ ~borderIndexValid("A")

\* ------------------------------------------------------------------ C20
\* C20: setPatternForegroundColor(c) and setPatternBackgroundColor(c) with a
\* valid color c while fillPattern() is PatternNone set fillPattern() to
\* PatternSolid; with an invalid color, or any other pattern, fillPattern() is
\* unchanged. In all cases the color is stored and the fill bundle is marked
\* dirty, so that fillIndexValid() is false.
C20_FillPatternPromotion ==
    [][\A h \in Handles :
          /\ (last'.op = "setPatternForegroundColor" /\ last'.h = h)
                => /\ fillPattern(h)' =
                         IF last'.arg # InvalidColor /\ fillPattern(h) = "PatternNone"
                         THEN "PatternSolid" ELSE fillPattern(h)
                   /\ patternForegroundColor(h)' = last'.arg
                   /\ patternBackgroundColor(h)' = patternBackgroundColor(h)
                   /\ P(h)'.fillData._dirty
                   /\ ~fillIndexValid(h)'
          /\ (last'.op = "setPatternBackgroundColor" /\ last'.h = h)
                => /\ fillPattern(h)' =
                         IF last'.arg # InvalidColor /\ fillPattern(h) = "PatternNone"
                         THEN "PatternSolid" ELSE fillPattern(h)
                   /\ patternBackgroundColor(h)' = last'.arg
                   /\ patternForegroundColor(h)' = patternForegroundColor(h)
                   /\ P(h)'.fillData._dirty
                   /\ ~fillIndexValid(h)']_vars

\* setPatternBackgroundColor(red) on a Format with no pattern and a valid fill
\* index: the pattern is solid and the index no longer valid
C20_Witness ==
    /\ last.op = "setPatternBackgroundColor"
    /\ last.arg = "red"
    /\ ops = 1
    /\ fillPattern("A") = "PatternSolid"
    /\ patternBackgroundColor("A") = "red"
    /\ fillIndex("A") = 5
    /\ ~fillIndexValid("A")

====
